---- MODULE Spec2Model ----
(***************************************************************************)
(* TemplateRouter (litellm/router_strategy/auto_router/template_router.py) *)
(* as a state machine.  The router keeps two stores:                       *)
(*   - the clustering engine, a drain3 TemplateMiner built with its        *)
(*     default configuration (template_router.py:32-34) and driven through *)
(*     add_log_message (line 86) and match (line 109);                     *)
(*   - the metadata overlay _cluster_metadata, pickled to metadata_file.   *)
(* A message is modelled by its token sequence, i.e. by the result of      *)
(* message.strip() followed by the engine's whitespace split.              *)
(***************************************************************************)
EXTENDS Integers, Sequences, FiniteSets, TLC

VARIABLES
    id_to_cluster,      \* engine: cluster id -> [log_template_tokens, size]
    clusters_counter,   \* engine: last cluster id handed out
    root_node,          \* engine: prefix tree, node path -> cluster_ids of the node
    engine_file,        \* persistence_file: the engine's last snapshot
    cluster_metadata,   \* self._cluster_metadata
    metadata_file,      \* the file at self.metadata_file
    ret,                \* what the last call returned
    nobs,               \* number of add_log_message calls (bounded)
    nann,               \* number of set_cluster_metadata calls (bounded)
    nrst,               \* number of restarts (bounded)
    routelayer,         \* AutoRouter: self.routelayer is not None
    pending,            \* AutoRouter: the record async_log_success_event is
                        \* awaiting the log sink with, NoPending for none
    db,                 \* the log sink: the records it has stored
    assigned            \* history: the <<cluster id, message>> pairs of the
                        \* add_log_message calls made so far

vars == <<id_to_cluster, clusters_counter, root_node, engine_file,
          cluster_metadata, metadata_file, ret, nobs, nann, nrst,
          routelayer, pending, db, assigned>>

(***************************************************************************)
(* Bounds of the model.                                                    *)
(***************************************************************************)
MaxLen == 3
MaxObserve == 3
MaxAnnotate == 2
MaxRestart == 1
MaxId == 2

Tokens == {"a", "7"}
\* every message of up to MaxLen tokens, and one whose tokens are themselves
\* the engine's wildcard marker
WildcardMessages == {<<"a", "<*>", "<*>">>}
Messages == UNION {[1..n -> Tokens] : n \in 0..MaxLen} \cup WildcardMessages

(***************************************************************************)
(* The engine's configuration: TemplateMiner() without a config object     *)
(* uses the defaults of drain3's TemplateMinerConfig.                      *)
(***************************************************************************)
param_str == "<*>"
sim_th_num == 4
sim_th_den == 10
max_node_depth == 2
max_children == 100

\* any(char.isdigit() for char in s), over the model's alphabet
has_numbers(s) == s \in {"7", "123", "456", "789"}

None == 0

(***************************************************************************)
(* Drain.get_seq_distance: [sim |-> number of similar positions,           *)
(* params |-> number of wildcard positions of the template]; the score is  *)
(* sim / Len(seq1), and 1.0 for the empty sequence.                        *)
(***************************************************************************)
get_seq_distance(seq1, seq2, include_params) ==
    LET eq == Cardinality({i \in 1..Len(seq1) :
                              seq1[i] # param_str /\ seq1[i] = seq2[i]})
        pc == Cardinality({i \in 1..Len(seq1) : seq1[i] = param_str})
    IN  IF Len(seq1) = 0 THEN [sim |-> 1, len |-> 1, params |-> 0]
        ELSE [sim |-> IF include_params THEN eq + pc ELSE eq,
              len |-> Len(seq1), params |-> pc]

\* max_sim >= sim_th as it would be with > in place of >=
SimReaches_strict(a, th_num, th_den) == a.sim * th_den > th_num * a.len

\* cur_sim > max_sim, on scores kept as fractions
SimGt(a, b) == a.sim * b.len > b.sim * a.len
SimEq(a, b) == a.sim * b.len = b.sim * a.len
\* max_sim >= sim_th, with sim_th = th_num / th_den
SimReaches(a, th_num, th_den) == a.sim * th_den >= th_num * a.len

(***************************************************************************)
(* Drain.fast_match: the cluster of cluster_ids with the highest score,    *)
(* ties going to the template with more wildcards and then to the earlier  *)
(* entry; None when the best score is below the threshold.                 *)
(***************************************************************************)
\* the loop of fast_match as it would be if a tie always went to the earlier
\* entry
RECURSIVE fast_match_loop_first_wins(_, _, _, _, _, _, _)
fast_match_loop_first_wins(clusters, cluster_ids, tokens, include_params, i, best, max_cluster) ==
    IF i > Len(cluster_ids) THEN [best |-> best, cluster |-> max_cluster]
    ELSE LET cid == cluster_ids[i]
             cur == get_seq_distance(clusters[cid].log_template_tokens, tokens,
                                     include_params)
         IN  IF cid \in DOMAIN clusters /\ SimGt(cur, best)
             THEN fast_match_loop_first_wins(clusters, cluster_ids, tokens,
                                             include_params, i + 1, cur, cid)
             ELSE fast_match_loop_first_wins(clusters, cluster_ids, tokens,
                                             include_params, i + 1, best,
                                             max_cluster)

RECURSIVE fast_match_loop(_, _, _, _, _, _, _)
fast_match_loop(clusters, cluster_ids, tokens, include_params, i, best, max_cluster) ==
    IF i > Len(cluster_ids) THEN [best |-> best, cluster |-> max_cluster]
    ELSE LET cid == cluster_ids[i]
             cur == get_seq_distance(clusters[cid].log_template_tokens, tokens,
                                     include_params)
         IN  IF cid \notin DOMAIN clusters
             THEN fast_match_loop(clusters, cluster_ids, tokens, include_params,
                                  i + 1, best, max_cluster)
             ELSE IF SimGt(cur, best) \/ (SimEq(cur, best) /\ cur.params > best.params)
             THEN fast_match_loop(clusters, cluster_ids, tokens, include_params,
                                  i + 1, cur, cid)
             ELSE fast_match_loop(clusters, cluster_ids, tokens, include_params,
                                  i + 1, best, max_cluster)

fast_match(clusters, cluster_ids, tokens, th_num, th_den, include_params) ==
    LET r == fast_match_loop(clusters, cluster_ids, tokens, include_params, 1,
                             [sim |-> -1, len |-> 1, params |-> -1], None)
    IN  IF SimReaches(r.best, th_num, th_den) THEN r.cluster ELSE None

(***************************************************************************)
(* Drain.tree_search: walk from the token-count node along the leading     *)
(* tokens (a missing child falls back to the wildcard child) down to       *)
(* max_node_depth, then fast_match among the clusters of the node reached. *)
(* A node is named by its path <<token_count, key, ...>>.                  *)
(***************************************************************************)
NoNode == <<>>

RECURSIVE tree_walk(_, _, _, _)
tree_walk(tree, tokens, path, depth) ==
    IF depth >= max_node_depth \/ depth = Len(tokens) THEN path
    ELSE LET token == tokens[depth]
         IN  IF Append(path, token) \in DOMAIN tree
             THEN tree_walk(tree, tokens, Append(path, token), depth + 1)
             ELSE IF Append(path, param_str) \in DOMAIN tree
             THEN tree_walk(tree, tokens, Append(path, param_str), depth + 1)
             ELSE NoNode

\* tree_search as it would be if a missing token-count node fell back to the
\* node of the next shorter count
tree_search_shorter(clusters, tree, tokens, th_num, th_den, include_params) ==
    LET n == IF <<Len(tokens)>> \in DOMAIN tree THEN Len(tokens)
             ELSE Len(tokens) - 1
    IN  IF <<n>> \notin DOMAIN tree THEN None
        ELSE IF n = 0 THEN tree[<<0>>][1]
        ELSE LET node == tree_walk(tree, tokens, <<n>>, 1)
             IN  IF node = NoNode THEN None
                 ELSE fast_match(clusters, tree[node], tokens, th_num, th_den,
                                 include_params)

tree_search(clusters, tree, tokens, th_num, th_den, include_params) ==
    IF <<Len(tokens)>> \notin DOMAIN tree THEN None
    ELSE IF Len(tokens) = 0 THEN tree[<<0>>][1]
    ELSE LET node == tree_walk(tree, tokens, <<Len(tokens)>>, 1)
         IN  IF node = NoNode THEN None
             ELSE fast_match(clusters, tree[node], tokens, th_num, th_den,
                             include_params)

(***************************************************************************)
(* Drain.add_seq_to_prefix_tree: file the new cluster under the node for   *)
(* its token count and leading tokens, creating the nodes on the way.  A   *)
(* token with digits is filed under the wildcard child; so is any token    *)
(* once the node holds max_children children.                              *)
(***************************************************************************)
WithNode(tree, path) ==
    IF path \in DOMAIN tree THEN tree ELSE tree @@ (path :> <<>>)

NumChildren(tree, path) ==
    Cardinality({q \in DOMAIN tree :
                    Len(q) = Len(path) + 1 /\ SubSeq(q, 1, Len(path)) = path})

\* the child of `path` the token is filed under
add_child_key(tree, path, token) ==
    IF Append(path, token) \in DOMAIN tree THEN token
    ELSE IF has_numbers(token) THEN param_str
    ELSE IF Append(path, param_str) \in DOMAIN tree
    THEN (IF NumChildren(tree, path) < max_children THEN token ELSE param_str)
    ELSE (IF NumChildren(tree, path) + 1 < max_children THEN token ELSE param_str)

RECURSIVE add_walk(_, _, _, _, _, _)
add_walk(clusters, tree, tokens, cluster_id, path, depth) ==
    IF depth >= max_node_depth \/ depth >= Len(tokens)
    THEN [tree EXCEPT ![path] =
            Append(SelectSeq(tree[path], LAMBDA c : c \in DOMAIN clusters),
                   cluster_id)]
    ELSE LET child == Append(path, add_child_key(tree, path, tokens[depth]))
         IN  add_walk(clusters, WithNode(tree, child), tokens, cluster_id,
                      child, depth + 1)

add_seq_to_prefix_tree(clusters, tree, cluster_id) ==
    LET tokens == clusters[cluster_id].log_template_tokens
        first == <<Len(tokens)>>
        t1 == WithNode(tree, first)
    IN  IF Len(tokens) = 0 THEN [t1 EXCEPT ![first] = <<cluster_id>>]
        ELSE add_walk(clusters, t1, tokens, cluster_id, first, 1)

(***************************************************************************)
(* Drain.create_template: the template keeps a token where it agrees with  *)
(* the message and becomes a wildcard where it does not.                   *)
(***************************************************************************)
\* create_template as it would be if a wildcard of the template took the
\* message's token
create_template_respecialise(seq1, seq2) ==
    [i \in 1..Len(seq2) |->
        IF seq1[i] = seq2[i] THEN seq2[i]
        ELSE IF seq2[i] = param_str THEN seq1[i] ELSE param_str]

\* create_template as it would be if the template kept its own tokens
create_template_keep_tokens(seq1, seq2) ==
    [i \in 1..Len(seq2) |-> seq2[i]]

create_template(seq1, seq2) ==
    [i \in 1..Len(seq2) |-> IF seq1[i] # seq2[i] THEN param_str ELSE seq2[i]]

\* merge_into_cluster as it would be if only a changed template were counted
merge_into_cluster_count_changes(old, new_template_tokens) ==
    IF new_template_tokens # old.log_template_tokens
    THEN [log_template_tokens |-> new_template_tokens, size |-> old.size + 1]
    ELSE old

\* merge_into_cluster as it would be if a changed template restarted the count
merge_into_cluster_recount(old, new_template_tokens) ==
    IF new_template_tokens # old.log_template_tokens
    THEN [log_template_tokens |-> new_template_tokens, size |-> 1]
    ELSE [log_template_tokens |-> old.log_template_tokens, size |-> old.size + 1]

\* the matched cluster after the message is added to it
merge_into_cluster(old, new_template_tokens) ==
    [log_template_tokens |->
         IF new_template_tokens # old.log_template_tokens
         THEN new_template_tokens ELSE old.log_template_tokens,
     size |-> old.size + 1]

\* add_log_message as it would be if every join reported a changed template
drain_add_log_message_join_changes(clusters, counter, tree, tokens) ==
    LET match_cluster == tree_search(clusters, tree, tokens,
                                     sim_th_num, sim_th_den, FALSE)
    IN  IF match_cluster = None
        THEN LET cluster_id == counter + 1
                 c1 == clusters @@
                       (cluster_id :> [log_template_tokens |-> tokens, size |-> 1])
             IN  [clusters |-> c1,
                  counter |-> cluster_id,
                  tree |-> add_seq_to_prefix_tree(c1, tree, cluster_id),
                  cluster_id |-> cluster_id,
                  change_type |-> "cluster_created"]
        ELSE LET old == clusters[match_cluster]
                 new_template_tokens ==
                     create_template(tokens, old.log_template_tokens)
             IN  [clusters |-> [clusters EXCEPT ![match_cluster] =
                                  merge_into_cluster(old, new_template_tokens)],
                  counter |-> counter,
                  tree |-> tree,
                  cluster_id |-> match_cluster,
                  change_type |-> "cluster_template_changed"]

(***************************************************************************)
(* Drain.add_log_message: search at sim_th without counting wildcards;     *)
(* no match creates cluster clusters_counter + 1, a match generalises the  *)
(* template and counts the message.                                        *)
(***************************************************************************)
drain_add_log_message(clusters, counter, tree, tokens) ==
    LET match_cluster == tree_search(clusters, tree, tokens,
                                     sim_th_num, sim_th_den, FALSE)
    IN  IF match_cluster = None
        THEN LET cluster_id == counter + 1
                 c1 == clusters @@
                       (cluster_id :> [log_template_tokens |-> tokens, size |-> 1])
             IN  [clusters |-> c1,
                  counter |-> cluster_id,
                  tree |-> add_seq_to_prefix_tree(c1, tree, cluster_id),
                  cluster_id |-> cluster_id,
                  change_type |-> "cluster_created"]
        ELSE LET old == clusters[match_cluster]
                 new_template_tokens ==
                     create_template(tokens, old.log_template_tokens)
                 changed == new_template_tokens # old.log_template_tokens
             IN  [clusters |-> [clusters EXCEPT ![match_cluster] =
                                  merge_into_cluster(old, new_template_tokens)],
                  counter |-> counter,
                  tree |-> tree,
                  cluster_id |-> match_cluster,
                  change_type |-> IF changed THEN "cluster_template_changed"
                                  ELSE "none"]

(***************************************************************************)
(* Drain.match (full_search_strategy "never"): the tree search with a      *)
(* required score of 1.0, wildcards counted.                               *)
(***************************************************************************)
\* Drain.match as it would be if it searched the way add_log_message does
drain_match_at_sim_th(clusters, tree, tokens) ==
    tree_search(clusters, tree, tokens, sim_th_num, sim_th_den, FALSE)

drain_match(clusters, tree, tokens) ==
    tree_search(clusters, tree, tokens, 1, 1, TRUE)

(***************************************************************************)
(* TemplateMiner persistence.  save_state snapshots the three fields of    *)
(* the Drain object; load_state puts them back, and leaves a fresh engine  *)
(* when the persistence file does not exist.  add_log_message saves when   *)
(* the call changed a cluster, or when snapshot_interval_minutes have      *)
(* passed since the last save.                                             *)
(***************************************************************************)
EmptyClusters == [c \in {} |-> 0]
EmptyTree == [p \in {} |-> <<>>]
NoEngineFile == [exists |-> FALSE, id_to_cluster |-> EmptyClusters,
                 clusters_counter |-> 0, root_node |-> EmptyTree]

save_state(clusters, counter, tree) ==
    [exists |-> TRUE, id_to_cluster |-> clusters,
     clusters_counter |-> counter, root_node |-> tree]

load_state(file) ==
    IF file.exists
    THEN [id_to_cluster |-> file.id_to_cluster,
          clusters_counter |-> file.clusters_counter,
          root_node |-> file.root_node]
    ELSE [id_to_cluster |-> EmptyClusters, clusters_counter |-> 0,
          root_node |-> EmptyTree]

\* get_snapshot_reason as it would be if only a new cluster triggered a save
get_snapshot_reason_created_only(change_type, interval_elapsed) ==
    change_type = "cluster_created" \/ interval_elapsed

\* get_snapshot_reason is not None
get_snapshot_reason(change_type, interval_elapsed) ==
    change_type # "none" \/ interval_elapsed

(***************************************************************************)
(* The metadata overlay and its file.  pickle.dump flattens the dict of    *)
(* dicts into its keys and its (id, key, value) items; pickle.load builds  *)
(* the dict of dicts back from them.                                       *)
(***************************************************************************)
ExtraKeys == {"target_model", "note"}
MetaKeys == {"name"} \cup ExtraKeys
Names == {"", "A", "B"}
AttrValues == {"x", "y"}
\* **kwargs: no attribute, or one attribute with one of two values
Kwargs == UNION {[S -> AttrValues] : S \in {{}, {"target_model"}, {"note"}}}
ClusterIds == 1..MaxId

EmptyRecord == [k \in {} |-> ""]
EmptyMetadata == [c \in {} |-> EmptyRecord]
PyNone == "<None>"

pickle_dump(d) ==
    [ids |-> DOMAIN d,
     items |-> UNION {{<<c, k, d[c][k]>> : k \in DOMAIN d[c]} : c \in DOMAIN d}]

pickle_load(b) ==
    [c \in b.ids |->
        [k \in {i[2] : i \in {j \in b.items : j[1] = c}} |->
            (CHOOSE i \in b.items : i[1] = c /\ i[2] = k)[3]]]

MissingFile == [st |-> "missing", bytes |-> pickle_dump(EmptyMetadata)]
CorruptFile == [st |-> "corrupt", bytes |-> pickle_dump(EmptyMetadata)]

\* _load_metadata as it would be without the second except clause
_load_metadata_no_catch_all(file) ==
    IF file.st = "missing"
    THEN [metadata |-> EmptyMetadata, raised |-> ""]
    ELSE IF file.st = "corrupt"
    THEN [metadata |-> EmptyMetadata, raised |-> "UnpicklingError"]
    ELSE [metadata |-> pickle_load(file.bytes), raised |-> ""]

(***************************************************************************)
(* TemplateRouter._load_metadata: the overlay it leaves, and the exception *)
(* it lets through to the constructor's caller ("" for none).              *)
(***************************************************************************)
_load_metadata(file) ==
    IF file.st = "missing"                             \* FileNotFoundError
    THEN [metadata |-> EmptyMetadata, raised |-> ""]
    ELSE IF file.st = "corrupt"                        \* any other Exception
    THEN [metadata |-> EmptyMetadata, raised |-> ""]
    ELSE [metadata |-> pickle_load(file.bytes), raised |-> ""]

(***************************************************************************)
(* TemplateRouter._save_metadata.  The outcome is the environment's:       *)
(* "ok"; "open_fails" (open raises, the file is untouched); "dump_fails"   *)
(* (open has truncated the file and pickle.dump raises part-way).  Either  *)
(* failure is printed and swallowed.                                       *)
(***************************************************************************)
SaveOutcomes == {"ok", "open_fails", "dump_fails"}

_save_metadata(file, d, outcome) ==
    IF outcome = "ok" THEN [st |-> "ok", bytes |-> pickle_dump(d)]
    ELSE IF outcome = "open_fails" THEN file
    ELSE CorruptFile

(***************************************************************************)
(* What a call returns.  One record shape serves every call; the fields a  *)
(* call does not return keep the values of NoRet.  msg is the argument of  *)
(* add_log_message, saved tells whether _save_metadata reported no error,  *)
(* raised names the exception the call let through ("" for none).          *)
(***************************************************************************)
NoRet == [op |-> "init", msg |-> <<>>, found |-> FALSE, cluster_id |-> None,
          template |-> <<>>, size |-> 0, name |-> "", target_model |-> PyNone,
          change_type |-> "", list |-> <<>>, saved |-> TRUE, raised |-> "",
          model |-> PyNone]

NoPending == [prompt |-> <<>>, cluster_id |-> ""]

\* f'cluster_{cluster_id}'
default_name(cluster_id) == "cluster_" \o ToString(cluster_id)

\* self._cluster_metadata.get(cluster_id, {}).get(key, default)
metadata_get(d, cluster_id, key, default) ==
    IF cluster_id \in DOMAIN d /\ key \in DOMAIN d[cluster_id]
    THEN d[cluster_id][key] ELSE default

\* the overlay of match as it would be if it looked no name up
match_overlay_default_name(clusters, d, matched) ==
    IF matched # None
    THEN [NoRet EXCEPT !.op = "match", !.found = TRUE,
            !.cluster_id = matched,
            !.template = clusters[matched].log_template_tokens,
            !.size = clusters[matched].size,
            !.name = default_name(matched),
            !.target_model = metadata_get(d, matched, "target_model", PyNone)]
    ELSE [NoRet EXCEPT !.op = "match"]

(***************************************************************************)
(* TemplateRouter.match (and __call__, which only forwards to it): the     *)
(* engine's match, overlaid with the cluster's name and target_model.      *)
(***************************************************************************)
match_overlay(clusters, d, matched) ==
    IF matched # None
    THEN [NoRet EXCEPT !.op = "match", !.found = TRUE,
            !.cluster_id = matched,
            !.template = clusters[matched].log_template_tokens,
            !.size = clusters[matched].size,
            !.name = metadata_get(d, matched, "name", default_name(matched)),
            !.target_model = metadata_get(d, matched, "target_model", PyNone)]
    ELSE [NoRet EXCEPT !.op = "match"]

match_result(clusters, tree, d, message) ==
    match_overlay(clusters, d, drain_match(clusters, tree, message))

\* match as it would be with setdefault in place of get on the overlay
Match_setdefault(message) ==
    /\ ret' = match_result(id_to_cluster, root_node, cluster_metadata, message)
    /\ cluster_metadata' =
          IF ret'.found /\ ret'.cluster_id \notin DOMAIN cluster_metadata
          THEN cluster_metadata @@ (ret'.cluster_id :> EmptyRecord)
          ELSE cluster_metadata
    /\ UNCHANGED <<id_to_cluster, clusters_counter, root_node, engine_file,
                   metadata_file, nobs, nann, nrst,
                   routelayer, pending, db, assigned>>

Match(message) ==
    /\ ret' = match_result(id_to_cluster, root_node, cluster_metadata, message)
    /\ UNCHANGED <<id_to_cluster, clusters_counter, root_node, engine_file,
                   cluster_metadata, metadata_file, nobs, nann, nrst,
                   routelayer, pending, db, assigned>>

\* add_log_message as it would be if it gave the returned cluster an empty
\* metadata record
AddLogMessage_default_record(message, interval_elapsed) ==
    LET r == drain_add_log_message(id_to_cluster, clusters_counter, root_node,
                                   message)
    IN  /\ nobs < MaxObserve
        /\ nobs' = nobs + 1
        /\ id_to_cluster' = r.clusters
        /\ clusters_counter' = r.counter
        /\ root_node' = r.tree
        /\ engine_file' = IF get_snapshot_reason(r.change_type, interval_elapsed)
                          THEN save_state(r.clusters, r.counter, r.tree)
                          ELSE engine_file
        /\ ret' = [NoRet EXCEPT !.op = "add_log_message", !.msg = message,
                     !.found = TRUE, !.cluster_id = r.cluster_id,
                     !.template = r.clusters[r.cluster_id].log_template_tokens,
                     !.change_type = r.change_type]
        /\ cluster_metadata' =
              IF r.cluster_id \in DOMAIN cluster_metadata THEN cluster_metadata
              ELSE cluster_metadata @@ (r.cluster_id :> EmptyRecord)
        /\ UNCHANGED <<metadata_file, nann, nrst, routelayer, pending, db>>
        /\ assigned' = assigned \cup {<<r.cluster_id, message>>}

(***************************************************************************)
(* TemplateRouter.add_log_message: the engine's add_log_message, which     *)
(* also snapshots the engine when get_snapshot_reason says so.             *)
(***************************************************************************)
AddLogMessage(message, interval_elapsed) ==
    LET r == drain_add_log_message(id_to_cluster, clusters_counter, root_node,
                                   message)
    IN  /\ nobs < MaxObserve
        /\ nobs' = nobs + 1
        /\ id_to_cluster' = r.clusters
        /\ clusters_counter' = r.counter
        /\ root_node' = r.tree
        /\ engine_file' = IF get_snapshot_reason(r.change_type, interval_elapsed)
                          THEN save_state(r.clusters, r.counter, r.tree)
                          ELSE engine_file
        /\ ret' = [NoRet EXCEPT !.op = "add_log_message", !.msg = message,
                     !.found = TRUE, !.cluster_id = r.cluster_id,
                     !.template = r.clusters[r.cluster_id].log_template_tokens,
                     !.change_type = r.change_type]
        /\ UNCHANGED <<cluster_metadata, metadata_file, nann, nrst,
                       routelayer, pending, db>>
        /\ assigned' = assigned \cup {<<r.cluster_id, message>>}

(***************************************************************************)
(* TemplateRouter.get_all_templates: every cluster of the engine, in the   *)
(* order of drain.clusters, with its overlaid name.                        *)
(***************************************************************************)
get_all_templates(clusters, counter, d) ==
    [i \in 1..counter |->
        [cluster_id |-> i,
         template |-> clusters[i].log_template_tokens,
         size |-> clusters[i].size,
         name |-> metadata_get(d, i, "name", default_name(i))]]

GetAllTemplates ==
    /\ ret' = [NoRet EXCEPT !.op = "get_all_templates",
                 !.list = get_all_templates(id_to_cluster, clusters_counter,
                                            cluster_metadata)]
    /\ UNCHANGED <<id_to_cluster, clusters_counter, root_node, engine_file,
                   cluster_metadata, metadata_file, nobs, nann, nrst,
                   routelayer, pending, db, assigned>>

\* set_cluster_metadata as it would be if it replaced the record
set_cluster_metadata_replace(d, cluster_id, name, kwargs) ==
    LET d1 == IF cluster_id \notin DOMAIN d
              THEN d @@ (cluster_id :> EmptyRecord) ELSE d
        r1 == IF name # "" THEN ("name" :> name) ELSE EmptyRecord
    IN  [d1 EXCEPT ![cluster_id] = kwargs @@ r1]

(***************************************************************************)
(* TemplateRouter.set_cluster_metadata: create the record if absent, set   *)
(* the name when one is given, merge the keyword attributes, save.         *)
(***************************************************************************)
set_cluster_metadata(d, cluster_id, name, kwargs) ==
    LET d1 == IF cluster_id \notin DOMAIN d
              THEN d @@ (cluster_id :> EmptyRecord) ELSE d
        r1 == IF name # "" THEN ("name" :> name) @@ d1[cluster_id]
              ELSE d1[cluster_id]
        r2 == kwargs @@ r1
    IN  [d1 EXCEPT ![cluster_id] = r2]

\* set_cluster_metadata as it would be if it saved before merging the
\* keyword attributes
SetClusterMetadata_save_first(cluster_id, name, kwargs, outcome) ==
    /\ nann < MaxAnnotate
    /\ nann' = nann + 1
    /\ cluster_metadata' = set_cluster_metadata(cluster_metadata, cluster_id,
                                                name, kwargs)
    /\ metadata_file' =
          _save_metadata(metadata_file,
                         set_cluster_metadata(cluster_metadata, cluster_id, name,
                                              EmptyRecord),
                         outcome)
    /\ ret' = [NoRet EXCEPT !.op = "set_cluster_metadata",
                 !.saved = (outcome = "ok")]
    /\ UNCHANGED <<id_to_cluster, clusters_counter, root_node, engine_file,
                   nobs, nrst,
                   routelayer, pending, db, assigned>>

SetClusterMetadata(cluster_id, name, kwargs, outcome) ==
    /\ nann < MaxAnnotate
    /\ nann' = nann + 1
    /\ cluster_metadata' = set_cluster_metadata(cluster_metadata, cluster_id,
                                                name, kwargs)
    /\ metadata_file' = _save_metadata(metadata_file, cluster_metadata', outcome)
    /\ ret' = [NoRet EXCEPT !.op = "set_cluster_metadata",
                 !.saved = (outcome = "ok")]
    /\ UNCHANGED <<id_to_cluster, clusters_counter, root_node, engine_file,
                   nobs, nrst,
                   routelayer, pending, db, assigned>>

(***************************************************************************)
(* TemplateRouter.__init__: a TemplateMiner over the persistence file      *)
(* (which loads the engine's snapshot), then _load_metadata.  Restart is   *)
(* the process ending and a new instance being constructed on the same     *)
(* files; the AutoRouter around it starts without a route layer, what the  *)
(* old process was awaiting is gone, the log sink keeps what it stored.    *)
(***************************************************************************)
Restart ==
    /\ nrst < MaxRestart
    /\ nrst' = nrst + 1
    /\ id_to_cluster' = load_state(engine_file).id_to_cluster
    /\ clusters_counter' = load_state(engine_file).clusters_counter
    /\ root_node' = load_state(engine_file).root_node
    /\ cluster_metadata' = _load_metadata(metadata_file).metadata
    /\ ret' = [NoRet EXCEPT !.raised = _load_metadata(metadata_file).raised]
    /\ routelayer' = FALSE
    /\ pending' = NoPending
    /\ UNCHANGED <<engine_file, metadata_file, nobs, nann, db, assigned>>

\* a first start, with neither file present
Init ==
    /\ engine_file = NoEngineFile
    /\ metadata_file = MissingFile
    /\ id_to_cluster = load_state(engine_file).id_to_cluster
    /\ clusters_counter = load_state(engine_file).clusters_counter
    /\ root_node = load_state(engine_file).root_node
    /\ cluster_metadata = _load_metadata(metadata_file).metadata
    /\ ret = [NoRet EXCEPT !.raised = _load_metadata(metadata_file).raised]
    /\ nobs = 0
    /\ nann = 0
    /\ nrst = 0
    /\ routelayer = FALSE
    /\ pending = NoPending
    /\ db = {}
    /\ assigned = {}

(***************************************************************************)
(* AutoRouter (auto_router.py) around the TemplateRouter.  The messages    *)
(* argument is absent (None, or no "messages" key) or a list; a message is *)
(* modelled by the token sequence of its "content".                        *)
(***************************************************************************)
default_model == "default"

NoMessages == [given |-> FALSE, list |-> <<>>]
AutoContents == {<<>>, <<"a">>, <<"a", "7">>}
AutoMessageLists ==
    {NoMessages} \cup
    {[given |-> TRUE, list |-> l] :
        l \in UNION {[1..n -> AutoContents] : n \in 0..2}}

(***************************************************************************)
(* AutoRouter.async_pre_routing_hook: None for absent messages; otherwise  *)
(* the route layer is created if there is none, messages[-1] is read       *)
(* (IndexError on an empty list) and the model is what the dict returned   *)
(* by match holds under "target_model", a key match always sets; the       *)
(* default model is used when match returns None.                          *)
(***************************************************************************)
async_pre_routing_hook(clusters, tree, d, messages) ==
    IF ~messages.given
    THEN [NoRet EXCEPT !.op = "async_pre_routing_hook"]
    ELSE IF Len(messages.list) = 0
    THEN [NoRet EXCEPT !.op = "async_pre_routing_hook", !.raised = "IndexError"]
    ELSE LET message_content == messages.list[Len(messages.list)]
             template_match == match_result(clusters, tree, d, message_content)
         IN  [NoRet EXCEPT !.op = "async_pre_routing_hook", !.found = TRUE,
                !.msg = message_content,
                !.model = IF template_match.found
                          THEN template_match.target_model
                          ELSE default_model]

PreRoutingHook(messages) ==
    /\ ret' = async_pre_routing_hook(id_to_cluster, root_node, cluster_metadata,
                                     messages)
    /\ routelayer' = (routelayer \/ messages.given)
    /\ UNCHANGED <<id_to_cluster, clusters_counter, root_node, engine_file,
                   cluster_metadata, metadata_file, nobs, nann, nrst,
                   pending, db, assigned>>

(***************************************************************************)
(* AutoRouter.async_log_success_event, in the two steps its await makes:   *)
(* up to the await the prompt of the last message is added to the engine   *)
(* and the record for the log sink is made with the cluster_id returned;   *)
(* then save_prompt_response_async stores the record or fails, and a       *)
(* failure is logged and swallowed.  Without a prompt nothing happens.     *)
(***************************************************************************)
HasPrompt(messages) == messages.given /\ Len(messages.list) > 0

\* the first step as it would be if the record were made from a match
\* before the prompt is added
LogObserve_record_first(messages, interval_elapsed) ==
    LET prompt == messages.list[Len(messages.list)]
        m == drain_match(id_to_cluster, root_node, prompt)
        r == drain_add_log_message(id_to_cluster, clusters_counter, root_node,
                                   prompt)
    IN  /\ pending = NoPending
        /\ HasPrompt(messages)
        /\ nobs < MaxObserve
        /\ nobs' = nobs + 1
        /\ id_to_cluster' = r.clusters
        /\ clusters_counter' = r.counter
        /\ root_node' = r.tree
        /\ engine_file' = IF get_snapshot_reason(r.change_type, interval_elapsed)
                          THEN save_state(r.clusters, r.counter, r.tree)
                          ELSE engine_file
        /\ pending' = [prompt |-> prompt,
                       cluster_id |-> IF m = None THEN "" ELSE ToString(m)]
        /\ ret' = [NoRet EXCEPT !.op = "add_log_message", !.msg = prompt,
                     !.found = TRUE, !.cluster_id = r.cluster_id,
                     !.template = r.clusters[r.cluster_id].log_template_tokens,
                     !.change_type = r.change_type]
        /\ UNCHANGED <<cluster_metadata, metadata_file, nann, nrst,
                       routelayer, db>>
        /\ assigned' = assigned \cup {<<r.cluster_id, prompt>>}

LogObserve(messages, interval_elapsed) ==
    LET prompt == messages.list[Len(messages.list)]
        r == drain_add_log_message(id_to_cluster, clusters_counter, root_node,
                                   prompt)
    IN  /\ pending = NoPending
        /\ HasPrompt(messages)
        /\ nobs < MaxObserve
        /\ nobs' = nobs + 1
        /\ id_to_cluster' = r.clusters
        /\ clusters_counter' = r.counter
        /\ root_node' = r.tree
        /\ engine_file' = IF get_snapshot_reason(r.change_type, interval_elapsed)
                          THEN save_state(r.clusters, r.counter, r.tree)
                          ELSE engine_file
        /\ pending' = [prompt |-> prompt, cluster_id |-> ToString(r.cluster_id)]
        /\ ret' = [NoRet EXCEPT !.op = "add_log_message", !.msg = prompt,
                     !.found = TRUE, !.cluster_id = r.cluster_id,
                     !.template = r.clusters[r.cluster_id].log_template_tokens,
                     !.change_type = r.change_type]
        /\ UNCHANGED <<cluster_metadata, metadata_file, nann, nrst,
                       routelayer, db>>
        /\ assigned' = assigned \cup {<<r.cluster_id, prompt>>}

\* async_log_success_event on a completion without a prompt
LogNoPrompt(messages) ==
    /\ pending = NoPending
    /\ ~HasPrompt(messages)
    /\ ret' = [NoRet EXCEPT !.op = "async_log_success_event"]
    /\ UNCHANGED <<id_to_cluster, clusters_counter, root_node, engine_file,
                   cluster_metadata, metadata_file, nobs, nann, nrst,
                   routelayer, pending, db, assigned>>

SinkOutcomes == {"ok", "fails"}

\* save_prompt_response_async: True and the record stored, or False
save_prompt_response_async(stored, record, outcome) ==
    IF outcome = "ok" THEN [db |-> stored \cup {record}, saved |-> TRUE]
    ELSE [db |-> stored, saved |-> FALSE]

LogForward(outcome) ==
    /\ pending # NoPending
    /\ db' = save_prompt_response_async(db, pending, outcome).db
    /\ pending' = NoPending
    /\ ret' = [NoRet EXCEPT !.op = "async_log_success_event",
                 !.saved = save_prompt_response_async(db, pending, outcome).saved]
    /\ UNCHANGED <<id_to_cluster, clusters_counter, root_node, engine_file,
                   cluster_metadata, metadata_file, nobs, nann, nrst,
                   routelayer, assigned>>

(***************************************************************************)
(* Three specifications over the same operations.                          *)
(*   Spec         one process lifetime: the engine over every message of   *)
(*                Messages, with one annotation interleaved;               *)
(*   SpecRestart  the engine over every message, across a restart;         *)
(*   SpecOverlay  the overlay over every annotation and save outcome,      *)
(*                across a restart, with one message interleaved.          *)
(***************************************************************************)
Observe == \E m \in Messages, e \in BOOLEAN : AddLogMessage(m, e)
Route == \E m \in Messages : Match(m)
AnnotateOne ==
    /\ nann = 0
    /\ SetClusterMetadata(1, "A", [k \in {"target_model"} |-> "x"], "ok")

Next == Observe \/ Route \/ GetAllTemplates \/ AnnotateOne

Spec == Init /\ [][Next]_vars

NextRestart == Observe \/ Route \/ Restart

SpecRestart == Init /\ [][NextRestart]_vars

OverlayMessages == {<<"a">>}
ObserveFew == \E m \in OverlayMessages, e \in BOOLEAN : AddLogMessage(m, e)
RouteFew == \E m \in OverlayMessages : Match(m)
Annotate ==
    \E c \in ClusterIds, n \in Names, k \in Kwargs, o \in SaveOutcomes :
        SetClusterMetadata(c, n, k, o)

NextOverlay == ObserveFew \/ RouteFew \/ GetAllTemplates \/ Annotate \/ Restart

SpecOverlay == Init /\ [][NextOverlay]_vars

(***************************************************************************)
(* SpecInsert: the engine over three orders that differ in one token, and  *)
(* over five-token messages that agree with the first of them in 2 of 5    *)
(* positions (the threshold exactly), in 1 of 5, and in 4 of 5 under       *)
(* another first token.                                                    *)
(***************************************************************************)
OrderMessages == {<<"user", "order", "123", "failed">>,
                  <<"user", "order", "456", "failed">>,
                  <<"user", "order", "789", "failed">>}
ThresholdMessages == {<<"a", "a", "a", "a", "a">>, <<"a", "a", "b", "b", "b">>,
                      <<"a", "b", "b", "b", "b">>, <<"b", "a", "a", "a", "a">>}
InsertMessages == OrderMessages \cup ThresholdMessages

ObserveInsert == \E m \in InsertMessages, e \in BOOLEAN : AddLogMessage(m, e)
RouteInsert == \E m \in InsertMessages : Match(m)

NextInsert == ObserveInsert \/ RouteInsert

SpecInsert == Init /\ [][NextInsert]_vars

(***************************************************************************)
(* SpecTie: the engine over messages of which two score the same against   *)
(* a third: with three tokens, some holding the wildcard marker as a       *)
(* token, and with four tokens and no marker.                              *)
(***************************************************************************)
TieMessages == {<<"a", "a", "a">>, <<"a", "<*>", "7">>, <<"a", "a", "7">>,
                <<"a", "<*>", "<*>">>,
                <<"x", "a", "b", "c">>, <<"x", "p", "q", "r">>,
                <<"x", "p", "q", "s">>, <<"x", "a", "q", "z">>}

ObserveTie == \E m \in TieMessages, e \in BOOLEAN : AddLogMessage(m, e)
RouteTie == \E m \in TieMessages : Match(m)

NextTie == ObserveTie \/ RouteTie

SpecTie == Init /\ [][NextTie]_vars

(***************************************************************************)
(* SpecAuto: the AutoRouter's two callbacks over every message list of     *)
(* AutoMessageLists, with the operator setting a target_model.             *)
(***************************************************************************)
PreRoute == \E ml \in AutoMessageLists : PreRoutingHook(ml)
OnCompletion ==
    \E ml \in AutoMessageLists :
        \/ \E e \in BOOLEAN : LogObserve(ml, e)
        \/ LogNoPrompt(ml)
SinkReplies == \E o \in SinkOutcomes : LogForward(o)
AnnotateTarget ==
    \E c \in ClusterIds :
        SetClusterMetadata(c, "", [k \in {"target_model"} |-> "x"], "ok")

NextAuto == PreRoute \/ OnCompletion \/ SinkReplies \/ AnnotateTarget

SpecAuto == Init /\ [][NextAuto]_vars

(***************************************************************************)
(* Properties.                                                             *)
(***************************************************************************)
Template(c) == id_to_cluster[c].log_template_tokens
Size(c) == id_to_cluster[c].size

\* every position of the template is a wildcard or the message's token
Covers(template, tokens) ==
    /\ Len(template) = Len(tokens)
    /\ \A i \in 1..Len(template) :
          template[i] = param_str \/ template[i] = tokens[i]

MatchNow(m) == match_result(id_to_cluster, root_node, cluster_metadata, m)
ObserveNow(m) ==
    drain_add_log_message(id_to_cluster, clusters_counter, root_node, m)

\* C1: match is read-only.  A match call leaves every cluster, the set of
\* clusters, the prefix tree, the overlay and both files as they were, so
\* the same call made again searches the same state; and the cluster it
\* returned reads back, after the call, exactly as it was returned.
C1_MatchReadOnly ==
    [][ret'.op = "match" =>
         /\ UNCHANGED <<id_to_cluster, clusters_counter, root_node,
                        cluster_metadata, engine_file, metadata_file>>
         /\ ret'.found =>
               match_overlay(id_to_cluster', cluster_metadata', ret'.cluster_id)
                   = ret']_vars

\* C1 witness: a match has returned an annotated cluster that holds two
\* messages.
C1_Witness ==
    ret.op = "match" /\ ret.found /\ ret.size >= 2 /\ ret.name = "A"

\* C2 as claimed: match(m) returns cluster c exactly when observe(m), issued
\* in the same state, would assign m to the existing cluster c, and returns
\* nothing exactly when observe(m) would create a cluster.
C2_MatchSameAsObserve ==
    \A m \in Messages :
        /\ MatchNow(m).found <=> ObserveNow(m).change_type # "cluster_created"
        /\ MatchNow(m).found => MatchNow(m).cluster_id = ObserveNow(m).cluster_id

\* C2 as amended: match(m) walks the tree as observe(m) does but asks for a
\* full score.  It returns a cluster only if that cluster's template covers
\* m (every position a wildcard or m's token); it does return a cluster
\* whenever observe(m) would join a cluster without changing its template;
\* with no node for m's token count match returns nothing and observe
\* creates a cluster.
C2_MatchNeedsFullScore ==
    \A m \in Messages :
        /\ MatchNow(m).found => Covers(MatchNow(m).template, m)
        /\ ObserveNow(m).change_type = "none" => MatchNow(m).found
        /\ <<Len(m)>> \notin DOMAIN root_node =>
              ~MatchNow(m).found /\ ObserveNow(m).change_type = "cluster_created"

\* C2 witness: a match has returned nothing in a state where observe would
\* merge some message into an existing cluster that match does not return.
C2_Witness ==
    /\ ret.op = "match" /\ ~ret.found
    /\ \E m \in Messages :
          ObserveNow(m).change_type = "cluster_template_changed"
              /\ ~MatchNow(m).found

\* C3: wildcard monotonicity.  A template position that holds the wildcard
\* marker holds it after every step.
C3_WildcardMonotonic ==
    [][\A c \in DOMAIN id_to_cluster :
          /\ c \in DOMAIN id_to_cluster'
          /\ \A i \in 1..Len(Template(c)) :
                Template(c)[i] = param_str =>
                    /\ i <= Len(id_to_cluster'[c].log_template_tokens)
                    /\ id_to_cluster'[c].log_template_tokens[i] = param_str]_vars

\* C3 witness: a cluster whose template was generalised to a wildcard has
\* since taken a further message.
C3_Witness ==
    \E c \in DOMAIN id_to_cluster :
        /\ Size(c) >= 3
        /\ \E i \in 1..Len(Template(c)) :
              Template(c)[i] = param_str /\ c = ret.cluster_id
        /\ ret.op = "add_log_message" /\ ret.change_type = "none"

\* C4: bucket isolation.  observe(m) returns a cluster whose template has as
\* many positions as m has tokens, and no step changes the length of an
\* existing cluster's template.
C4_BucketIsolation ==
    [][/\ (ret'.op = "add_log_message" /\ nobs' = nobs + 1) =>
             /\ Len(ret'.template) = Len(ret'.msg)
             /\ Len(id_to_cluster'[ret'.cluster_id].log_template_tokens)
                    = Len(ret'.msg)
       /\ \A c \in DOMAIN id_to_cluster :
             /\ c \in DOMAIN id_to_cluster'
             /\ Len(id_to_cluster'[c].log_template_tokens) = Len(Template(c))]_vars

\* C4 witness: clusters of different token counts exist side by side and one
\* of them has taken a second message.
C4_Witness ==
    /\ ret.op = "add_log_message" /\ ret.change_type # "cluster_created"
    /\ \E c, d \in DOMAIN id_to_cluster :
          Len(Template(c)) # Len(Template(d)) /\ c = ret.cluster_id

\* C5 as claimed: repeat stability.  When observe(m) has returned cluster c,
\* an immediately following observe(m) of the same message returns c again,
\* with change_type none.
C5_RepeatStable ==
    [][(/\ ret.op = "add_log_message" /\ ret'.op = "add_log_message"
        /\ nobs' = nobs + 1 /\ ret'.msg = ret.msg) =>
           /\ ret'.cluster_id = ret.cluster_id
           /\ ret'.change_type = "none"]_vars

\* C6: monotonic size.  Within one process lifetime no step removes a cluster
\* or lowers its size.
C6_SizeMonotonic ==
    [][\A c \in DOMAIN id_to_cluster :
          /\ c \in DOMAIN id_to_cluster'
          /\ id_to_cluster'[c].size >= Size(c)]_vars

\* C6 witness: get_all_templates lists a cluster that holds two messages,
\* after an annotation.
C6_Witness ==
    /\ ret.op = "get_all_templates" /\ cluster_metadata # EmptyMetadata
    /\ \E i \in 1..Len(ret.list) : ret.list[i].size >= 2

\* the overlay a new instance would load is the overlay in memory
InSync == _load_metadata(metadata_file).metadata = cluster_metadata

\* C7: metadata round trip with write-through.  An annotate whose save
\* succeeds leaves on file exactly the overlay in memory, whatever was saved
\* or lost before; no other call puts file and memory apart; and a restart
\* taken while they agree yields an overlay equal to the one in memory just
\* before it, record for record and attribute for attribute.
C7_MetadataRoundTrip ==
    [][/\ (ret'.op = "set_cluster_metadata" /\ nann' = nann + 1 /\ ret'.saved)
             => InSync'
       /\ (InSync /\ nann' = nann) => InSync'
       /\ (InSync /\ nrst' = nrst + 1) => cluster_metadata' = cluster_metadata]_vars

\* C7 witness: a restarted instance holds a reloaded record with a name and
\* an extra attribute.
C7_Witness ==
    /\ ret.op = "init" /\ nrst = 1
    /\ \E c \in DOMAIN cluster_metadata :
          {"name", "note"} \subseteq DOMAIN cluster_metadata[c]

\* C8 as claimed: after a restart the engine returns, for every message, the
\* same match result and the same observe result as the engine before the
\* restart would have.
C8_RestartEquivalent ==
    [][nrst' = nrst + 1 =>
         \A m \in Messages :
            /\ match_result(id_to_cluster', root_node', cluster_metadata', m)
                   = MatchNow(m)
            /\ drain_add_log_message(id_to_cluster', clusters_counter',
                                     root_node', m) = ObserveNow(m)]_vars

\* C8 as amended: after a restart the engine has the clusters, templates and
\* prefix tree it had before, so match and observe return the same cluster
\* id, template and change_type; only a cluster's size may be lower than
\* before the restart, never higher.
C8_RestartKeepsTemplates ==
    [][nrst' = nrst + 1 =>
         /\ root_node' = root_node
         /\ clusters_counter' = clusters_counter
         /\ DOMAIN id_to_cluster' = DOMAIN id_to_cluster
         /\ \A c \in DOMAIN id_to_cluster :
               /\ id_to_cluster'[c].log_template_tokens = Template(c)
               /\ id_to_cluster'[c].size <= Size(c)
         /\ \A m \in Messages :
               LET a == MatchNow(m)
                   b == match_result(id_to_cluster', root_node',
                                     cluster_metadata', m)
                   x == ObserveNow(m)
                   y == drain_add_log_message(id_to_cluster', clusters_counter',
                                              root_node', m)
               IN  /\ b.found = a.found /\ b.cluster_id = a.cluster_id
                   /\ b.template = a.template /\ b.size <= a.size
                   /\ y.cluster_id = x.cluster_id
                   /\ y.change_type = x.change_type
                   /\ y.clusters[y.cluster_id].log_template_tokens
                         = x.clusters[x.cluster_id].log_template_tokens]_vars

\* C8 witness: a restarted engine holds two clusters, one of them with a
\* generalised template.
C8_Witness ==
    /\ nrst = 1 /\ clusters_counter >= 2
    /\ \E c \in DOMAIN id_to_cluster :
          \E i \in 1..Len(Template(c)) : Template(c)[i] = param_str

\* C9: graceful load.  Construction lets no exception through; on a missing
\* or unreadable metadata file the overlay is empty, on a readable one it is
\* the overlay on file; with no engine snapshot there is no cluster to list.
C9_GracefulLoad ==
    ret.op = "init" =>
        /\ ret.raised = ""
        /\ metadata_file.st \in {"missing", "corrupt"} =>
              cluster_metadata = EmptyMetadata
        /\ metadata_file.st = "ok" =>
              cluster_metadata = pickle_load(metadata_file.bytes)
        /\ ~engine_file.exists =>
              get_all_templates(id_to_cluster, clusters_counter,
                                cluster_metadata) = <<>>

\* C9 witness: an instance has been constructed on an unreadable metadata
\* file.
C9_Witness ==
    /\ ret.op = "init" /\ nrst = 1
    /\ metadata_file.st = "corrupt" /\ cluster_metadata = EmptyMetadata

\* the record of cluster_id after annotate(cluster_id, name, kwargs), read
\* off the record before it
MergedRecord(old, name, kwargs) ==
    [key \in DOMAIN old \cup DOMAIN kwargs \cup
             (IF name # "" THEN {"name"} ELSE {}) |->
        IF key \in DOMAIN kwargs THEN kwargs[key]
        ELSE IF key = "name" /\ name # "" THEN name
        ELSE old[key]]

\* C10: annotate is a shallow additive merge.  After annotate(id, name,
\* attrs) the record of id has every key it had, with its old value unless
\* the key is in attrs or is the name and a non-empty name was given; an
\* empty name leaves an existing name alone; the id need not be a cluster of
\* the engine; the records of all other ids are unchanged.
C10_ShallowMerge ==
    [][\A c \in ClusterIds, n \in Names, k \in Kwargs :
          (/\ ret'.op = "set_cluster_metadata" /\ nann' = nann + 1
           /\ cluster_metadata' = set_cluster_metadata(cluster_metadata, c, n, k)) =>
             /\ DOMAIN cluster_metadata' = DOMAIN cluster_metadata \cup {c}
             /\ cluster_metadata'[c] =
                   MergedRecord(IF c \in DOMAIN cluster_metadata
                                THEN cluster_metadata[c] ELSE EmptyRecord, n, k)
             /\ \A other \in DOMAIN cluster_metadata \ {c} :
                   cluster_metadata'[other] = cluster_metadata[other]]_vars

\* C10 witness: two annotated ids, neither of them a cluster of the engine,
\* one with a name and a target_model set by separate calls.
C10_Witness ==
    /\ ret.op = "set_cluster_metadata" /\ clusters_counter = 0
    /\ \E c \in DOMAIN cluster_metadata :
          {"name", "target_model"} \subseteq DOMAIN cluster_metadata[c]

\* C11: overlay defaults of match.  A result for cluster c carries the name
\* of c's metadata record if the record has one and "cluster_<c>" otherwise,
\* the target_model of c's record if the record has one and None otherwise,
\* and the template and size cluster c has in the engine.
C11_OverlayDefaults ==
    (ret.op = "match" /\ ret.found) =>
        LET c == ret.cluster_id
            has(key) == c \in DOMAIN cluster_metadata
                        /\ key \in DOMAIN cluster_metadata[c]
        IN  /\ c \in DOMAIN id_to_cluster
            /\ ret.template = Template(c)
            /\ ret.size = Size(c)
            /\ has("name") => ret.name = cluster_metadata[c]["name"]
            /\ ~has("name") => ret.name = "cluster_" \o ToString(c)
            /\ has("target_model") =>
                  ret.target_model = cluster_metadata[c]["target_model"]
            /\ ~has("target_model") => ret.target_model = PyNone

\* C11 witness: match returned a cluster whose record has a name and no
\* target_model.
C11_Witness ==
    /\ ret.op = "match" /\ ret.found
    /\ ret.name \in {"A", "B"} /\ ret.target_model = PyNone
    /\ ret.cluster_id \in DOMAIN cluster_metadata

\* the model the claim expects of async_pre_routing_hook for a message
\* list whose last message has the given content
ExpectedModel(content) ==
    LET c == drain_match(id_to_cluster, root_node, content)
    IN  IF /\ c # None /\ c \in DOMAIN cluster_metadata
           /\ "target_model" \in DOMAIN cluster_metadata[c]
        THEN cluster_metadata[c]["target_model"]
        ELSE default_model

\* C12 as claimed: for a non-empty message list the hook returns a model,
\* which is the target_model annotated on the cluster the last message
\* matches and the default model in every other case; it is never None.
C12_AlwaysAModel ==
    [][\A ml \in AutoMessageLists :
          (HasPrompt(ml) /\ PreRoutingHook(ml)) =>
             /\ ret'.found /\ ret'.raised = ""
             /\ ret'.model = ExpectedModel(ml.list[Len(ml.list)])
             /\ ret'.model # PyNone]_vars

\* C13 as claimed: with no messages to route on, absent or an empty list,
\* the hook returns None, raises nothing and changes no state.
C13_NothingWithoutMessages ==
    [][\A ml \in AutoMessageLists :
          (~HasPrompt(ml) /\ PreRoutingHook(ml)) =>
             /\ ~ret'.found /\ ret'.raised = ""
             /\ UNCHANGED <<id_to_cluster, clusters_counter, root_node,
                            engine_file, cluster_metadata, metadata_file,
                            routelayer, pending, db>>]_vars

\* C14: log-sink isolation.  A completion with a prompt first applies
\* observe(prompt) to the engine and only then has a record for the sink,
\* whose cluster_id is the id that observe returned; nothing reaches the
\* sink before that.  When the sink replies, with success or with failure,
\* nothing is raised, the engine and its snapshot stay as the observe left
\* them, and the sink holds at most the one record more.
C14_LogSinkIsolation ==
    [][/\ \A ml \in AutoMessageLists, e \in BOOLEAN :
             LogObserve(ml, e) =>
                LET prompt == ml.list[Len(ml.list)]
                IN  /\ id_to_cluster' = ObserveNow(prompt).clusters
                    /\ clusters_counter' = ObserveNow(prompt).counter
                    /\ root_node' = ObserveNow(prompt).tree
                    /\ ret'.op = "add_log_message" /\ ret'.msg = prompt
                    /\ ret'.cluster_id = ObserveNow(prompt).cluster_id
                    /\ pending' = [prompt |-> prompt,
                                   cluster_id |-> ToString(ret'.cluster_id)]
                    /\ db' = db
       /\ \A o \in SinkOutcomes :
             LogForward(o) =>
                /\ ret'.raised = ""
                /\ UNCHANGED <<id_to_cluster, clusters_counter, root_node,
                               engine_file, cluster_metadata, metadata_file>>
                /\ db' = IF o = "ok" THEN db \cup {pending} ELSE db
       /\ (pending = NoPending /\ pending' = NoPending) => db' = db]_vars

\* C14 witness: the sink has failed on the record of an observe, and the
\* cluster that observe created is in the engine.
C14_Witness ==
    /\ ret.op = "async_log_success_event" /\ ~ret.saved
    /\ db = {} /\ nobs = 1 /\ clusters_counter = 1
    /\ Size(1) = 1

\* the clusters whose templates have as many tokens as m
Bucket(m) == {c \in DOMAIN id_to_cluster : Len(Template(c)) = Len(m)}

\* the clusters observe and match compare m with: those of the prefix-tree
\* node that m's token count and leading token lead to
Leaf(m) ==
    IF <<Len(m)>> \notin DOMAIN root_node THEN {}
    ELSE LET node == IF Len(m) = 0 THEN <<0>>
                     ELSE tree_walk(root_node, m, <<Len(m)>>, 1)
         IN  IF node = NoNode THEN {}
             ELSE {root_node[node][i] : i \in 1..Len(root_node[node])}

\* positions at which the template is a wildcard or equals m's token
WildOrEqual(c, m) ==
    Cardinality({i \in 1..Len(m) :
                    Template(c)[i] = param_str \/ Template(c)[i] = m[i]})
\* positions at which the template is no wildcard and equals m's token
EqualOnly(c, m) ==
    Cardinality({i \in 1..Len(m) :
                    Template(c)[i] # param_str /\ Template(c)[i] = m[i]})
WildCount(c) ==
    Cardinality({i \in 1..Len(Template(c)) : Template(c)[i] = param_str})

\* a new cluster holds the message verbatim, with size 1
CreatesVerbatim(m) ==
    ObserveNow(m).change_type = "cluster_created" =>
        ObserveNow(m).clusters[ObserveNow(m).cluster_id]
            = [log_template_tokens |-> m, size |-> 1]

\* the three orders, observed one after the other on an empty engine, end
\* with one cluster of size 3 and template user order <*> failed
OrdersEndInOneCluster ==
    LET e1 == <<"user", "order", "123", "failed">>
        e2 == <<"user", "order", "456", "failed">>
        e3 == <<"user", "order", "789", "failed">>
        t == <<"user", "order", param_str, "failed">>
    IN  /\ clusters_counter = 0 =>
              ObserveNow(e1).clusters
                 = <<[log_template_tokens |-> e1, size |-> 1]>>
        /\ id_to_cluster = <<[log_template_tokens |-> e1, size |-> 1]>> =>
              ObserveNow(e2).clusters
                 = <<[log_template_tokens |-> t, size |-> 2]>>
        /\ id_to_cluster = <<[log_template_tokens |-> t, size |-> 2]>> =>
              ObserveNow(e3).clusters
                 = <<[log_template_tokens |-> t, size |-> 3]>>

\* observe joins exactly at a score of one half, wildcards counted, among
\* the clusters of the message's token count
JoinsAtHalf ==
    \A m \in InsertMessages :
       /\ ObserveNow(m).change_type # "cluster_created"
             <=> \E c \in Bucket(m) : 2 * WildOrEqual(c, m) >= Len(m)
       /\ CreatesVerbatim(m)

\* observe joins exactly at a score of 0.4, wildcards not counted, among the
\* clusters of the message's prefix-tree node
JoinsAtSimTh ==
    \A m \in InsertMessages :
       /\ ObserveNow(m).change_type # "cluster_created"
             <=> \E c \in Leaf(m) :
                    Len(m) = 0 \/ 10 * EqualOnly(c, m) >= 4 * Len(m)
       /\ CreatesVerbatim(m)

\* C15 as claimed: observe(m) joins an existing cluster if and only if some
\* cluster of m's token count scores at or above 0.5, the score being the
\* fraction of positions at which the template is a wildcard or equals m's
\* token; otherwise it creates a cluster with m's tokens and size 1; the
\* three orders end in one cluster of size 3.
C15_InclusiveHalf == JoinsAtHalf /\ OrdersEndInOneCluster

\* C15 as amended: observe(m) joins an existing cluster if and only if some
\* cluster of the prefix-tree node m leads to scores at or above 0.4 (a
\* score of exactly 0.4 joins), the score being the fraction of positions at
\* which the template is no wildcard and equals m's token; otherwise it
\* creates a cluster with m's tokens and size 1; the three orders end in
\* one cluster of size 3.
C15_InsertDecision == JoinsAtSimTh /\ OrdersEndInOneCluster

\* C15 witness: a message that agrees with a cluster in exactly 2 of 5
\* positions has joined it.
C15_Witness ==
    /\ ret.op = "add_log_message"
    /\ ret.msg = <<"a", "a", "b", "b", "b">>
    /\ ret.change_type = "cluster_template_changed"
    /\ ret.template = <<"a", "a", param_str, param_str, param_str>>

\* C16: change_type classifies the change exactly.  An observe returns
\* cluster_created exactly when it added a cluster, which is then the one
\* cluster more; cluster_template_changed exactly when it joined an existing
\* cluster and turned at least one position of its template into a wildcard;
\* none exactly when it joined an existing cluster and left its template as
\* it was; in the last two cases the set of clusters is unchanged.
C16_ChangeTypeExact ==
    [][(ret'.op = "add_log_message" /\ nobs' = nobs + 1) =>
         LET c == ret'.cluster_id
             existed == c \in DOMAIN id_to_cluster
             newly == existed /\ \E i \in 1..Len(Template(c)) :
                         /\ Template(c)[i] # param_str
                         /\ id_to_cluster'[c].log_template_tokens[i] = param_str
             same == existed /\ id_to_cluster'[c].log_template_tokens = Template(c)
             grown == /\ clusters_counter' = clusters_counter + 1
                      /\ DOMAIN id_to_cluster' = DOMAIN id_to_cluster \cup {c}
                      /\ ~existed
         IN  /\ ret'.change_type \in {"cluster_created",
                                      "cluster_template_changed", "none"}
             /\ ret'.change_type = "cluster_created" <=> grown
             /\ ret'.change_type = "cluster_template_changed" <=> newly
             /\ ret'.change_type = "none" <=> same
             /\ ret'.change_type # "cluster_created" =>
                   /\ clusters_counter' = clusters_counter
                   /\ DOMAIN id_to_cluster' = DOMAIN id_to_cluster]_vars

\* C16 witness: an observe has joined a cluster whose template already held
\* a wildcard, and left the template as it was.
C16_Witness ==
    /\ ret.op = "add_log_message" /\ ret.change_type = "none"
    /\ \E i \in 1..Len(ret.template) : ret.template[i] = param_str
    /\ \E i \in 1..Len(ret.template) : ret.msg[i] # ret.template[i]
    /\ clusters_counter = 1 /\ nobs = 3

Lowest(S) == CHOOSE c \in S : \A d \in S : c <= d

\* the clusters of m's node with the highest score, as observe scores (the
\* positions equal to m's token) and as match scores (those and wildcards)
BestForObserve(m) ==
    {c \in Leaf(m) : \A d \in Leaf(m) : EqualOnly(c, m) >= EqualOnly(d, m)}
BestForMatch(m) ==
    {c \in Leaf(m) : \A d \in Leaf(m) : WildOrEqual(c, m) >= WildOrEqual(d, m)}
ObserveReaches(m) == \E c \in Leaf(m) : 10 * EqualOnly(c, m) >= 4 * Len(m)
MatchReaches(m) == \E c \in Leaf(m) : WildOrEqual(c, m) = Len(m)

\* of the clusters of S, those whose templates hold the most wildcards
MostWildcards(S) == {c \in S : \A d \in S : WildCount(c) >= WildCount(d)}

\* C17 as claimed: when the highest score among the clusters compared with
\* a message reaches the threshold, observe and match both select, of the
\* clusters with that score, the one with the lowest cluster id.
C17_LowestIdWins ==
    \A m \in TieMessages :
       /\ ObserveReaches(m) =>
             ObserveNow(m).cluster_id = Lowest(BestForObserve(m))
       /\ MatchReaches(m) =>
             MatchNow(m).cluster_id = Lowest(BestForMatch(m))

\* C17 as amended: when the highest score among the clusters compared with
\* a message reaches the threshold, observe and match both select, of the
\* clusters with that score, one whose template holds the most wildcards,
\* and of these the one with the lowest cluster id.
C17_MostWildcardsThenLowestId ==
    \A m \in TieMessages :
       /\ ObserveReaches(m) =>
             ObserveNow(m).cluster_id = Lowest(MostWildcards(BestForObserve(m)))
       /\ MatchReaches(m) =>
             MatchNow(m).cluster_id = Lowest(MostWildcards(BestForMatch(m)))

\* C17 witness: a message that scores the same against clusters 1 and 2 has
\* been observed and has joined cluster 2, whose template holds a wildcard.
C17_Witness ==
    /\ ret.op = "add_log_message" /\ ret.msg = <<"a", "a", "7">>
    /\ ret.cluster_id = 2 /\ clusters_counter = 2
    /\ Template(1) = <<"a", "a", "a">>
    /\ Template(2) = <<"a", param_str, "7">>

\* C18: independence of the two stores.  An observe leaves the overlay and
\* the metadata file as they were; an annotate leaves the clusters, the
\* prefix tree and the engine's snapshot as they were, whether or not the
\* annotated id is a cluster; and the overlay changes only in an annotate
\* or when a new instance loads the metadata file.
C18_StoresIndependent ==
    [][/\ nobs' = nobs + 1 =>
             UNCHANGED <<cluster_metadata, metadata_file>>
       /\ nann' = nann + 1 =>
             UNCHANGED <<id_to_cluster, clusters_counter, root_node, engine_file>>
       /\ cluster_metadata' # cluster_metadata =>
             nann' = nann + 1 \/ nrst' = nrst + 1
       /\ metadata_file' # metadata_file => nann' = nann + 1]_vars

\* C18 witness: an observe has run after the annotation of an id that is no
\* cluster; the engine holds its one cluster, the overlay the one record.
C18_Witness ==
    /\ ret.op = "add_log_message" /\ clusters_counter = 1
    /\ DOMAIN cluster_metadata = {2}

\* C19 as claimed: an annotate whose save fails returns normally, leaves the
\* merged record in the overlay in memory and leaves the metadata file with
\* its previous content, so that a restart loads what it would have loaded
\* before the call, losing the unsaved changes and nothing else; an annotate
\* whose save succeeds puts the whole overlay in memory on file.
C19_FailedSaveKeepsFile ==
    [][(ret'.op = "set_cluster_metadata" /\ nann' = nann + 1) =>
         /\ ret'.raised = ""
         /\ \E c \in ClusterIds, n \in Names, k \in Kwargs :
               cluster_metadata' = set_cluster_metadata(cluster_metadata, c, n, k)
         /\ ~ret'.saved => _load_metadata(metadata_file').metadata
                               = _load_metadata(metadata_file).metadata
         /\ ret'.saved => InSync']_vars

\* the sizes of clusters 1..n added up
RECURSIVE SumSizes(_, _)
SumSizes(clusters, n) ==
    IF n = 0 THEN 0 ELSE clusters[n].size + SumSizes(clusters, n - 1)

\* an observe adds one to the size of the cluster it returns, a new cluster
\* starting at 1, and leaves every other size as it was
CountsOnce ==
    (ret'.op = "add_log_message" /\ nobs' = nobs + 1) =>
        LET c == ret'.cluster_id
        IN  /\ c \in DOMAIN id_to_cluster'
            /\ id_to_cluster'[c].size
                  = IF c \in DOMAIN id_to_cluster THEN Size(c) + 1 ELSE 1
            /\ \A d \in DOMAIN id_to_cluster \ {c} :
                  d \in DOMAIN id_to_cluster' /\ id_to_cluster'[d].size = Size(d)

\* C20 as claimed: starting from an empty engine, in every reachable state
\* the sizes of all clusters add up to the number of observe calls made so
\* far; each observe adds one to the size of the cluster it returns and to
\* no other.
C20_SizesCountObserves ==
    [][/\ SumSizes(id_to_cluster', clusters_counter') = nobs'
       /\ CountsOnce]_vars

\* C20 as amended: starting from an empty engine and until the process is
\* restarted, the sizes of all clusters add up to the number of observe
\* calls made so far; after a restart they add up to that number or less;
\* each observe adds one to the size of the cluster it returns and to no
\* other.
C20_SizesCountObservesOfTheProcess ==
    [][/\ nrst' = 0 => SumSizes(id_to_cluster', clusters_counter') = nobs'
       /\ SumSizes(id_to_cluster', clusters_counter') <= nobs'
       /\ CountsOnce]_vars

\* C20 witness: three observes without a restart have left two clusters, of
\* sizes 2 and 1.
C20_Witness ==
    /\ nobs = 3 /\ nrst = 0 /\ clusters_counter = 2
    /\ Size(1) = 2 /\ Size(2) = 1

\* the messages the add_log_message calls so far have assigned to cluster c
AssignedTo(c) == {p[2] : p \in {q \in assigned : q[1] = c}}

\* the score Drain.match gives the message against the template is 1.0
ScoresOne(template, tokens) ==
    LET d == get_seq_distance(template, tokens, TRUE) IN d.sim = d.len

\* C21: template soundness.  In every reachable state, for every cluster c
\* and every message m that an earlier add_log_message assigned to c, by
\* creating c or by merging into it, c is still a cluster, each position of
\* c's template is the wildcard marker or m's token at that position, and
\* so m scores 1.0 against c's current template.
C21_TemplateSoundness ==
    \A p \in assigned :
        /\ p[1] \in DOMAIN id_to_cluster
        /\ Covers(Template(p[1]), p[2])
        /\ ScoresOne(Template(p[1]), p[2])

\* C21 witness: after a restart, a cluster holds two messages that differ at
\* a position, its template has the wildcard marker there, and neither
\* message had the marker itself.
C21_Witness ==
    /\ nrst = 1
    /\ \E c \in DOMAIN id_to_cluster :
          \E m1, m2 \in AssignedTo(c) :
             \E i \in 1..Len(m1) :
                /\ Len(m2) = Len(m1)
                /\ m1[i] # m2[i]
                /\ m1[i] # param_str /\ m2[i] # param_str
                /\ Template(c)[i] = param_str

====
